---- MODULE Spec2Model ----
(***************************************************************************)
(* Model of ticket_bot.py: the TicketBot polling loop (check_ticket), the  *)
(* reset and status commands and the on_ready event, as they run on one    *)
(* cooperative event loop.  A task runs without interruption from one      *)
(* suspension point (await channel.send, await asyncio.sleep) to the next; *)
(* requests.get is a blocking call and is no suspension point.  The locals *)
(* of check_ticket are kept while a later statement of the iteration reads *)
(* them; found and the messages handed to the channel are kept until the   *)
(* task's next iteration starts.                                           *)
(* A text is a sequence of fragments with the character counts of the     *)
(* source, so that message[:2000] cuts the long messages.  reset_pending   *)
(* is a history variable: it records that a reset has run and that no      *)
(* alert send has started since.                                           *)
(***************************************************************************)
EXTENDS Naturals, Sequences, FiniteSets, TLC

\* ---------------------------------------------------------------- bounds
MaxTasks == 2        \* on_ready deliveries modelled (each creates a task)
MaxEntries == 2      \* date containers on one fetched page
MaxChecks == 2       \* cap of check_count
MinuteStep == 10     \* the clock is read at every MinuteStep-th minute of an hour
LongHrefChars == 2500 \* number of characters of the long href of the pages

Tasks == 1..MaxTasks

\* ------------------------------------------------------------- constants
OpenHour == 8
CloseHour == 24
MaxMessageLength == 2000

None == "None"

\* an href of LongHrefChars characters
LongHref == "/long"

\* config.json values (any text; the target is lower-cased in __init__)
TARGET_DAY == "15"
TARGET_MONTH == "March"

\* ------------------------------------------------------------------ text
\* str.lower() on the texts of the model
Lower(s) ==
    CASE s = "March" -> "march"
      [] s = "MARCH" -> "march"
      [] s = "April" -> "april"
      [] OTHER -> s

\* str.upper() on the texts of the model
Upper(s) ==
    CASE s = "March" -> "MARCH"
      [] s = "march" -> "MARCH"
      [] s = "April" -> "APRIL"
      [] s = "april" -> "APRIL"
      [] OTHER -> s

\* get_text(strip=True) on the texts of the model
Strip(s) ==
    CASE s = " 15 " -> "15"
      [] OTHER -> s

target_day == Lower(TARGET_DAY)
target_month == Lower(TARGET_MONTH)

\* a date container of the page: the text of its day and month tags (None
\* when the tag is absent) and the href of its enclosing link (None when
\* there is no enclosing link)
Containers ==
    { [day |-> " 15 ", month |-> "March", href |-> LongHref],
      [day |-> "15",   month |-> "MARCH", href |-> None],
      [day |-> "16",   month |-> "march", href |-> "/b"],
      [day |-> "15",   month |-> "April", href |-> "/a"],
      [day |-> "15",   month |-> None,    href |-> "/b"] }

\* soup.find_all(...): the ordered date containers of a fetched page
Pages == UNION { [1..n -> Containers] : n \in 0..MaxEntries }

\* Text is a sequence of fragments; concatenation is \o.
\* line 107: the digest of a page without entries is this one line
NoSessions == << <<"*(No ticket sessions found)*">> >>

EntryDay(c) == Lower(Strip(c.day))
EntryMonth(c) == Lower(Strip(c.month))
EntryUrl(c) == IF c.href # None THEN <<"https://ticketline.sapo.pt", c.href>> ELSE <<"No link">>

HasTags(c) == c.day # None /\ c.month # None

\* line 95
SummaryLine(c) == <<"DATE ", Upper(EntryDay(c)), " ", Upper(EntryMonth(c)), " - ">> \o EntryUrl(c)

\* line 96
IsTargetByMonth(c) == EntryMonth(c) = target_month
IsTarget(c) == EntryDay(c) = target_day /\ EntryMonth(c) = target_month

\* "\n".join(lines)
RECURSIVE JoinLines(_)
JoinLines(lines) ==
    IF lines = <<>> THEN <<>>
    ELSE IF Len(lines) = 1 THEN Head(lines)
    ELSE Head(lines) \o <<"\n">> \o JoinLines(Tail(lines))

AlertHead == "ALERT Tickets for **"
DigestHead == "**Current Ticket Dates:**\n"

\* line 101
AlertMessage(url) ==
    <<AlertHead, Upper(target_month), " ", target_day, "** are now available! @here\n">> \o url

\* line 113
DigestMessage(summaries) == <<DigestHead>> \o JoinLines(summaries)

\* len() of a fragment: the texts the model abbreviates have the length
\* they have in the source
Chars(fragment) ==
    CASE fragment = LongHref -> LongHrefChars
      [] fragment = AlertHead -> 19
      [] fragment = " - " -> 5
      [] OTHER -> Len(fragment)

\* len() of a text
RECURSIVE TextLen(_)
TextLen(text) == IF text = <<>> THEN 0 ELSE Chars(Head(text)) + TextLen(Tail(text))

\* the fragments that text[:n] reaches; the last of them may be cut
RECURSIVE Reached(_, _)
Reached(text, n) ==
    IF text = <<>> \/ n = 0 THEN <<>>
    ELSE IF Chars(Head(text)) >= n THEN <<Head(text)>>
    ELSE <<Head(text)>> \o Reached(Tail(text), n - Chars(Head(text)))

\* text[:n], as the fragments it reaches and the number of characters it keeps
Slice(text, n) ==
    [text |-> Reached(text, n), chars |-> IF TextLen(text) <= n THEN TextLen(text) ELSE n]

\* lines 102 and 114: message[:2000]
Untruncated(message) == [text |-> message, chars |-> TextLen(message)]
Truncated(message) == Slice(message, MaxMessageLength)

IsAlert(message) == Head(message.text) = AlertHead
IsDigest(message) == Head(message.text) = DigestHead

\* the messages of one kind among those handed to the channel
RECURSIVE Alerts(_)
Alerts(messages) ==
    IF messages = <<>> THEN <<>>
    ELSE IF IsAlert(Head(messages)) THEN <<Head(messages)>> \o Alerts(Tail(messages))
    ELSE Alerts(Tail(messages))

RECURSIVE Digests(_)
Digests(messages) ==
    IF messages = <<>> THEN <<>>
    ELSE IF IsDigest(Head(messages)) THEN <<Head(messages)>> \o Digests(Tail(messages))
    ELSE Digests(Tail(messages))

\* is_within_operating_hours, as a function of the clock reading
IsWithinOperatingHoursOffByOne(now) == OpenHour < now.hour /\ now.hour < CloseHour
IsWithinOperatingHours(now) == OpenHour <= now.hour /\ now.hour < CloseHour

\* datetime.now(self.timezone): the readings of the wall clock
Clock == [hour : 0..23, minute : {m \in 0..59 : m % MinuteStep = 0}]

\* line 69: some reading of the clock finds the gate open (closed)
GateCanBeOpen == \E now \in Clock : IsWithinOperatingHours(now)
GateCanBeClosed == \E now \in Clock : ~IsWithinOperatingHours(now)

\* lines 98-100: the alert is sent when not yet announced and the channel resolves
ShouldAlertIgnoringFlag(announced, channel) == channel
ShouldAlert(announced, channel) == ~announced /\ channel

\* lines 87-104, from the container the for loop is at up to the first
\* await channel.send of an alert, or to the end of the loop.  No statement
\* of this stretch suspends, so already_announced and the channel cache keep
\* the values they have when it starts.
RECURSIVE ScanContainers(_, _, _, _, _)
ScanContainers(conts, summaries, fnd, announced, channel) ==
    IF conts = <<>>
    THEN [stop |-> "end", pending |-> <<>>, event_summaries |-> summaries,
          found |-> fnd, url |-> <<>>]
    ELSE LET c == Head(conts)
             added == Append(summaries, SummaryLine(c))
         IN  IF ~HasTags(c)
             THEN ScanContainers(Tail(conts), summaries, fnd, announced, channel)
             ELSE IF IsTarget(c)
                  THEN IF ShouldAlert(announced, channel)
                       THEN [stop |-> "alert", pending |-> Tail(conts),
                             event_summaries |-> added, found |-> TRUE,
                             url |-> EntryUrl(c)]
                       ELSE ScanContainers(Tail(conts), added, TRUE, announced, channel)
                  ELSE ScanContainers(Tail(conts), added, fnd, announced, channel)

\* line 104: the flag once the alert send has returned
AnnouncedLeftAsIs(announced) == announced
AnnouncedAfterAlert(announced) == TRUE

\* lines 106-107
WithSentinelOmitted(summaries) == summaries
WithSentinel(summaries) == IF summaries = <<>> THEN NoSessions ELSE summaries

VARIABLES
    client_closed,              \* self.client.is_closed()
    channel_cached,             \* whether client.get_channel(channel_id) finds the channel
    already_announced,          \* self.already_announced
    check_count,                \* self.check_count
    previous_event_summaries,   \* self.previous_event_summaries
    start_time,                 \* self.start_time
    pc,                         \* per check_ticket task: where it is suspended
    pending,                    \* per task: containers the for loop has not visited yet
    event_summaries,            \* per task: local event_summaries
    found,                      \* per task: local found
    sent,                       \* per task: messages handed to channel.send in its current iteration
    error_logged,               \* per task: its current iteration logged "Error during check" (line 124)
    gate,                       \* a call of is_within_operating_hours: clock reading and result
    reset_pending               \* history: a reset has run and no alert send has started since

bot == <<already_announced, check_count, previous_event_summaries, start_time>>
locals == <<pending, event_summaries, found, sent, error_logged>>
vars == <<client_closed, channel_cached, already_announced, check_count,
          previous_event_summaries, start_time, pc, pending, event_summaries,
          found, sent, error_logged, gate, reset_pending>>

Midnight == [hour |-> 0, minute |-> 0]

Init ==
    /\ client_closed = FALSE
    /\ channel_cached \in BOOLEAN
    /\ already_announced = FALSE
    /\ check_count = 0
    /\ previous_event_summaries = <<>>
    /\ start_time = "construction"
    /\ pc = [t \in Tasks |-> "none"]
    /\ pending = [t \in Tasks |-> <<>>]
    /\ event_summaries = [t \in Tasks |-> <<>>]
    /\ found = [t \in Tasks |-> FALSE]
    /\ sent = [t \in Tasks |-> <<>>]
    /\ error_logged = [t \in Tasks |-> FALSE]
    /\ gate = [now |-> Midnight, called |-> FALSE, result |-> FALSE]
    /\ reset_pending = FALSE

\* ---------------------------------------------------------- host events
\* on_ready: create_task(check_ticket()); the host may deliver it again
\* after a reconnect
on_ready ==
    /\ ~client_closed
    /\ \E t \in Tasks :
          /\ pc[t] = "none"
          /\ \A u \in Tasks : u < t => pc[u] # "none"
          /\ pc' = [pc EXCEPT ![t] = "start"]
    /\ UNCHANGED <<client_closed, channel_cached, bot, locals, gate, reset_pending>>

\* the client is closed (process shutdown)
Close ==
    /\ ~client_closed
    /\ client_closed' = TRUE
    /\ UNCHANGED <<channel_cached, bot, pc, locals, gate, reset_pending>>

\* the channel enters or leaves the client's cache
ChannelCache ==
    /\ ~client_closed
    /\ channel_cached' = ~channel_cached
    /\ UNCHANGED <<client_closed, bot, pc, locals, gate, reset_pending>>

\* --------------------------------------------------------------- commands
\* line 141: the flag after !reset
ResetFlagToggled(announced) == ~announced
ResetFlag(announced) == FALSE

\* !reset
reset_clears_digest ==
    /\ ~client_closed
    /\ previous_event_summaries' = <<>>
    /\ reset_pending' = TRUE
    /\ UNCHANGED <<client_closed, channel_cached, already_announced, check_count,
                   start_time, pc, locals, gate>>

reset_zeroes_count ==
    /\ ~client_closed
    /\ already_announced' = FALSE
    /\ check_count' = 0
    /\ reset_pending' = TRUE
    /\ UNCHANGED <<client_closed, channel_cached,
                   previous_event_summaries, start_time, pc, locals, gate>>

reset ==
    /\ ~client_closed
    /\ already_announced' = ResetFlag(already_announced)
    /\ reset_pending' = TRUE
    /\ UNCHANGED <<client_closed, channel_cached, check_count,
                   previous_event_summaries, start_time, pc, locals, gate>>

\* get_stats: reads check_count and already_announced
get_stats == [checks |-> check_count, announced |-> already_announced]

\* !status
status ==
    /\ ~client_closed
    /\ get_stats \in [checks : Nat, announced : BOOLEAN]
    /\ UNCHANGED vars

\* ------------------------------------------------------------ check_ticket
\* line 110: list inequality (length, contents and order)
DigestChangedAsSet(summaries, previous) ==
    {summaries[i] : i \in 1..Len(summaries)} # {previous[i] : i \in 1..Len(previous)}
DigestChanged(summaries, previous) == summaries # previous

\* lines 123-124: the except clause logs and falls through to the sleep of line 128
ExceptReraise(t) == [pc EXCEPT ![t] = "done"]
ExceptHandler(t) == [pc EXCEPT ![t] = "sleep"]

\* line 128: the iteration ends suspended in asyncio.sleep(self.check_interval)
SleepSkipped(t) == [pc EXCEPT ![t] = "start"]
Sleep(t) == [pc EXCEPT ![t] = "sleep"]

\* line 70
CountStuck(n) == n
CountCheck(n) == n + 1

\* lines 106-121, after the for loop: the digest comparison, up to the
\* await channel.send of the digest or to the end of the iteration
AfterLoopAlertOrDigest(t, r, handed) ==
    LET summaries == WithSentinel(r.event_summaries)
        compared == handed = <<>> /\ DigestChanged(summaries, previous_event_summaries)
    IN  /\ pending' = [pending EXCEPT ![t] = <<>>]
        /\ found' = [found EXCEPT ![t] = r.found]
        /\ IF compared /\ channel_cached
           THEN /\ pc' = [pc EXCEPT ![t] = "digest_send"]
                /\ event_summaries' = [event_summaries EXCEPT ![t] = summaries]
                /\ sent' = [sent EXCEPT ![t] = Append(handed, Truncated(DigestMessage(summaries)))]
                /\ UNCHANGED previous_event_summaries
           ELSE /\ pc' = Sleep(t)
                /\ event_summaries' = [event_summaries EXCEPT ![t] = <<>>]
                /\ sent' = [sent EXCEPT ![t] = handed]
                /\ previous_event_summaries' =
                       IF compared THEN summaries ELSE previous_event_summaries

AfterLoopStoringOnlyWhenSent(t, r, handed) ==
    LET summaries == WithSentinel(r.event_summaries)
    IN  /\ pending' = [pending EXCEPT ![t] = <<>>]
        /\ found' = [found EXCEPT ![t] = r.found]
        /\ UNCHANGED previous_event_summaries
        /\ IF DigestChanged(summaries, previous_event_summaries) /\ channel_cached
           THEN /\ pc' = [pc EXCEPT ![t] = "digest_send"]
                /\ event_summaries' = [event_summaries EXCEPT ![t] = summaries]
                /\ sent' = [sent EXCEPT ![t] = Append(handed, Truncated(DigestMessage(summaries)))]
           ELSE /\ pc' = Sleep(t)
                /\ event_summaries' = [event_summaries EXCEPT ![t] = <<>>]
                /\ sent' = [sent EXCEPT ![t] = handed]

AfterLoop(t, r, handed) ==
    LET summaries == WithSentinel(r.event_summaries)
    IN  /\ pending' = [pending EXCEPT ![t] = <<>>]
        /\ found' = [found EXCEPT ![t] = r.found]
        /\ IF DigestChanged(summaries, previous_event_summaries)
           THEN IF channel_cached
                THEN /\ pc' = [pc EXCEPT ![t] = "digest_send"]
                     /\ event_summaries' = [event_summaries EXCEPT ![t] = summaries]
                     /\ sent' = [sent EXCEPT ![t] = Append(handed, Truncated(DigestMessage(summaries)))]
                     /\ UNCHANGED previous_event_summaries
                ELSE /\ pc' = Sleep(t)
                     /\ event_summaries' = [event_summaries EXCEPT ![t] = <<>>]
                     /\ sent' = [sent EXCEPT ![t] = handed]
                     /\ previous_event_summaries' = summaries
           ELSE /\ pc' = Sleep(t)
                /\ event_summaries' = [event_summaries EXCEPT ![t] = <<>>]
                /\ sent' = [sent EXCEPT ![t] = handed]
                /\ UNCHANGED previous_event_summaries

\* where the task suspends next, given the outcome r of ScanContainers
RunTo(t, r, handed) ==
    IF r.stop = "alert"
    THEN /\ pc' = [pc EXCEPT ![t] = "alert_send"]
         /\ pending' = [pending EXCEPT ![t] = r.pending]
         /\ event_summaries' = [event_summaries EXCEPT ![t] = r.event_summaries]
         /\ found' = [found EXCEPT ![t] = r.found]
         /\ sent' = [sent EXCEPT ![t] = Append(handed, Truncated(AlertMessage(r.url)))]
         /\ reset_pending' = FALSE
         /\ UNCHANGED previous_event_summaries
    ELSE /\ AfterLoop(t, r, handed)
         /\ UNCHANGED reset_pending

\* The task is at the loop condition of line 68 when it is resumed from the
\* sleep of line 128, or when it first runs: wait_until_ready (line 59) returns
\* at once, the client being ready when on_ready is delivered.
AtLoopTop(t) == pc[t] \in {"start", "sleep"}

\* line 68: the loop ends when the client is closed
LoopExit(t) ==
    /\ AtLoopTop(t)
    /\ client_closed
    /\ pc' = [pc EXCEPT ![t] = "done"]
    /\ UNCHANGED <<client_closed, channel_cached, bot, locals, gate, reset_pending>>

\* lines 69, 125-128: outside operating hours
GateClosedCounted(t) ==
    /\ AtLoopTop(t)
    /\ ~client_closed
    /\ GateCanBeClosed
    /\ check_count < MaxChecks
    /\ check_count' = CountCheck(check_count)
    /\ pc' = Sleep(t)
    /\ sent' = [sent EXCEPT ![t] = <<>>]
    /\ found' = [found EXCEPT ![t] = FALSE]
    /\ error_logged' = [error_logged EXCEPT ![t] = FALSE]
    /\ UNCHANGED <<client_closed, channel_cached, already_announced,
                   previous_event_summaries, start_time, pending, event_summaries, gate, reset_pending>>

GateClosed(t) ==
    /\ AtLoopTop(t)
    /\ ~client_closed
    /\ GateCanBeClosed
    /\ pc' = Sleep(t)
    /\ sent' = [sent EXCEPT ![t] = <<>>]
    /\ found' = [found EXCEPT ![t] = FALSE]
    /\ error_logged' = [error_logged EXCEPT ![t] = FALSE]
    /\ UNCHANGED <<client_closed, channel_cached, bot, pending, event_summaries, gate, reset_pending>>

\* lines 69-75, 123-124: requests.get, raise_for_status, gzip.decompress or
\* decode raises
FetchFailClearsFlag(t) ==
    /\ AtLoopTop(t)
    /\ ~client_closed
    /\ GateCanBeOpen
    /\ check_count < MaxChecks
    /\ check_count' = CountCheck(check_count)
    /\ already_announced' = FALSE
    /\ pc' = ExceptHandler(t)
    /\ sent' = [sent EXCEPT ![t] = <<>>]
    /\ found' = [found EXCEPT ![t] = FALSE]
    /\ error_logged' = [error_logged EXCEPT ![t] = TRUE]
    /\ UNCHANGED <<client_closed, channel_cached,
                   previous_event_summaries, start_time, pending, event_summaries, gate, reset_pending>>

FetchFail(t) ==
    /\ AtLoopTop(t)
    /\ ~client_closed
    /\ GateCanBeOpen
    /\ check_count < MaxChecks
    /\ check_count' = CountCheck(check_count)
    /\ pc' = ExceptHandler(t)
    /\ sent' = [sent EXCEPT ![t] = <<>>]
    /\ found' = [found EXCEPT ![t] = FALSE]
    /\ error_logged' = [error_logged EXCEPT ![t] = TRUE]
    /\ UNCHANGED <<client_closed, channel_cached, already_announced,
                   previous_event_summaries, start_time, pending, event_summaries, gate, reset_pending>>

\* lines 69-121: the fetch succeeds and the page holds the containers `page`
Cycle(t, page) ==
    /\ AtLoopTop(t)
    /\ ~client_closed
    /\ GateCanBeOpen
    /\ check_count < MaxChecks
    /\ check_count' = CountCheck(check_count)
    /\ RunTo(t, ScanContainers(page, <<>>, FALSE, already_announced, channel_cached), <<>>)
    /\ error_logged' = [error_logged EXCEPT ![t] = FALSE]
    /\ UNCHANGED <<client_closed, channel_cached, already_announced, start_time, gate>>

\* lines 102-104: the alert send returns; the for loop goes on
AlertSendReturn(t) ==
    /\ pc[t] = "alert_send"
    /\ already_announced' = AnnouncedAfterAlert(already_announced)
    /\ RunTo(t, ScanContainers(pending[t], event_summaries[t], found[t],
                               AnnouncedAfterAlert(already_announced),
                               channel_cached), sent[t])
    /\ UNCHANGED <<client_closed, channel_cached, check_count, start_time, error_logged, gate>>

\* lines 102, 123-124: the alert send raises
AlertSendRaiseAnnounced(t) ==
    /\ pc[t] = "alert_send"
    /\ pc' = ExceptHandler(t)
    /\ already_announced' = TRUE
    /\ pending' = [pending EXCEPT ![t] = <<>>]
    /\ event_summaries' = [event_summaries EXCEPT ![t] = <<>>]
    /\ error_logged' = [error_logged EXCEPT ![t] = TRUE]
    /\ UNCHANGED <<client_closed, channel_cached, check_count, previous_event_summaries,
                   start_time, found, sent, gate, reset_pending>>

AlertSendRaise(t) ==
    /\ pc[t] = "alert_send"
    /\ pc' = ExceptHandler(t)
    /\ pending' = [pending EXCEPT ![t] = <<>>]
    /\ event_summaries' = [event_summaries EXCEPT ![t] = <<>>]
    /\ error_logged' = [error_logged EXCEPT ![t] = TRUE]
    /\ UNCHANGED <<client_closed, channel_cached, bot, found, sent, gate, reset_pending>>

\* lines 114-121: the digest send returns
DigestSendReturn(t) ==
    /\ pc[t] = "digest_send"
    /\ previous_event_summaries' = event_summaries[t]
    /\ pc' = Sleep(t)
    /\ event_summaries' = [event_summaries EXCEPT ![t] = <<>>]
    /\ UNCHANGED <<client_closed, channel_cached, already_announced, check_count,
                   start_time, pending, found, sent, error_logged, gate, reset_pending>>

\* lines 114, 123-124: the digest send raises
DigestSendRaise(t) ==
    /\ pc[t] = "digest_send"
    /\ pc' = ExceptHandler(t)
    /\ event_summaries' = [event_summaries EXCEPT ![t] = <<>>]
    /\ error_logged' = [error_logged EXCEPT ![t] = TRUE]
    /\ UNCHANGED <<client_closed, channel_cached, bot, pending, found, sent, gate, reset_pending>>

Next ==
    \/ on_ready
    \/ Close
    \/ ChannelCache
    \/ reset
    \/ status
    \/ \E t \in Tasks : LoopExit(t)
    \/ \E t \in Tasks : GateClosed(t)
    \/ \E t \in Tasks : FetchFail(t)
    \/ \E t \in Tasks : \E page \in Pages : Cycle(t, page)
    \/ \E t \in Tasks : AlertSendReturn(t)
    \/ \E t \in Tasks : AlertSendRaise(t)
    \/ \E t \in Tasks : DigestSendReturn(t)
    \/ \E t \in Tasks : DigestSendRaise(t)

Spec == Init /\ [][Next]_vars

\* ------------------------------------------------- the operating-hours gate
\* is_within_operating_hours applied to every reading of the clock
InitGate ==
    /\ Init
    /\ channel_cached = FALSE

ReadClock ==
    /\ \E now \in Clock :
          gate' = [now |-> now, called |-> TRUE, result |-> IsWithinOperatingHours(now)]
    /\ UNCHANGED <<client_closed, channel_cached, bot, pc, locals, reset_pending>>

SpecGate == InitGate /\ [][ReadClock]_vars

TypeOK ==
    /\ client_closed \in BOOLEAN
    /\ already_announced \in BOOLEAN
    /\ reset_pending \in BOOLEAN
    /\ check_count \in 0..MaxChecks
    /\ \A t \in Tasks : pc[t] \in {"none", "start", "alert_send", "digest_send", "sleep", "done"}

\* ------------------------------------------------- what the claims speak of
\* a step in which task t hands an alert (a digest) to channel.send: it
\* becomes suspended at line 102 (line 114)
AlertHanded(t) == pc[t] # "alert_send" /\ pc'[t] = "alert_send"
DigestHanded(t) == pc[t] # "digest_send" /\ pc'[t] = "digest_send"

\* an entry whose lower-cased day and month equal the lower-cased target
MatchesTarget(c) ==
    /\ c.day # None
    /\ c.month # None
    /\ Lower(Strip(c.day)) = Lower(TARGET_DAY)
    /\ Lower(Strip(c.month)) = Lower(TARGET_MONTH)

HasMatch(page) == \E i \in 1..Len(page) : MatchesTarget(page[i])

FirstMatch(page) ==
    CHOOSE i \in 1..Len(page) :
        MatchesTarget(page[i]) /\ \A j \in 1..(i - 1) : ~MatchesTarget(page[j])

\* the digest of a page: one line per container that has both tags, in page
\* order, or the one sentinel line
PageLines(page) ==
    LET entries == SelectSeq(page, LAMBDA c : c.day # None /\ c.month # None)
    IN  [i \in 1..Len(entries) |-> SummaryLine(entries[i])]

PageDigest(page) == IF PageLines(page) = <<>> THEN NoSessions ELSE PageLines(page)

\* a step in which task t starts a cycle on `page`, sends no alert and so
\* reaches the digest comparison of line 110
CycleComparesDigest(t, page) ==
    /\ AtLoopTop(t)
    /\ check_count' = check_count + 1
    /\ pc'[t] \in {"digest_send", "sleep"}
    /\ ~error_logged'[t]
    /\ Cycle(t, page)

\* the digest task t compares when its alert send returns: the lines it has
\* collected and those of the containers still to visit
DigestAfterAlert(t) == event_summaries[t] \o PageLines(pending[t])

\* ---------------------------------------------------------------- claims

\* C1: while already_announced is true and no reset runs, it stays true and
\* no task hands an alert to the channel, whatever the pages of the cycles
\* contain.
C1_NoAlertWhileAnnounced ==
    [][(already_announced /\ ~reset)
         => (already_announced' /\ \A t \in Tasks : ~AlertHanded(t))]_vars

\* a second cycle of the only task found the target while announced, and sent no alert
C1_Witness ==
    /\ already_announced
    /\ check_count = 2
    /\ pc[1] = "sleep" /\ found[1] /\ ~error_logged[1]
    /\ Alerts(sent[1]) = <<>>
    /\ \A u \in Tasks : u # 1 => pc[u] = "none"

\* a step in which task t starts a cycle whose fetch and extraction succeed,
\* on a page that holds an entry matching the target
FindsTarget(t) ==
    /\ AtLoopTop(t)
    /\ check_count' = check_count + 1
    /\ found'[t]
    /\ \E page \in Pages : HasMatch(page) /\ Cycle(t, page)

\* a step in which the alert send of task t returns without raising
AlertReturned(t) == pc[t] = "alert_send" /\ pc'[t] # "alert_send" /\ ~error_logged'[t]

\* C2 as stated: every cycle that finds the target while already_announced
\* is false sends an alert in that cycle.
C2_AlertWheneverFound ==
    [][\A t \in Tasks : (~already_announced /\ FindsTarget(t)) => AlertHanded(t)]_vars

\* C2, amended: a cycle that finds the target while already_announced is
\* false and the channel resolves hands one alert to the channel, no
\* iteration hands more than one, and already_announced is true as soon as
\* the alert send has returned.
C2_OneAlertWhenChannelResolves ==
    [][\A t \in Tasks :
         /\ (~already_announced /\ channel_cached /\ FindsTarget(t))
               => (AlertHanded(t) /\ Len(Alerts(sent'[t])) = 1)
         /\ AlertReturned(t) => (already_announced' /\ Len(Alerts(sent'[t])) = 1)
         /\ Len(Alerts(sent'[t])) <= 1]_vars

\* the first cycle found the target, its alert send has returned and its
\* digest send is in progress
C2_Witness ==
    /\ check_count = 1
    /\ pc[1] = "digest_send" /\ found[1]
    /\ Len(Alerts(sent[1])) = 1
    /\ already_announced

\* the last iteration of task t sent an alert whose send returned, and a
\* reset has run since
ResetAfterAlert(t) ==
    /\ pc[t] = "sleep"
    /\ Alerts(sent[t]) # <<>>
    /\ ~error_logged[t]
    /\ ~already_announced

\* C3 as stated: after a reset that follows an alert, the next cycle that
\* finds the target sends a new alert.
C3_AlertAfterReset ==
    [][\A t \in Tasks : (ResetAfterAlert(t) /\ FindsTarget(t)) => AlertHanded(t)]_vars

\* C3, amended: a reset leaves already_announced false; a cycle that then
\* finds the target while already_announced is still false and the channel
\* resolves hands exactly one new alert, carrying the first matching URL,
\* and already_announced is true again once that send has returned.
C3_OneNewAlertAfterReset ==
    [][/\ reset => ~already_announced'
       /\ \A t \in Tasks :
            /\ (ResetAfterAlert(t) /\ channel_cached /\ FindsTarget(t))
                  => (AlertHanded(t) /\ Len(Alerts(sent'[t])) = 1)
            /\ (AlertReturned(t) /\ check_count > 1)
                  => (already_announced' /\ Len(Alerts(sent'[t])) = 1)]_vars

\* the alert send of the only task's first cycle has returned, a reset has
\* run since, and the channel resolves for the cycle to come
C3_Witness ==
    /\ check_count = 1
    /\ ResetAfterAlert(1)
    /\ channel_cached
    /\ ~client_closed
    /\ \A u \in Tasks : u # 1 => pc[u] = "none"

\* C4 as stated: a cycle whose fetch fails leaves every field of the bot,
\* check_count included, unchanged and sends nothing.
C4_FailedFetchChangesNothing ==
    [][\A t \in Tasks : FetchFail(t) => (UNCHANGED bot /\ sent'[t] = <<>>)]_vars

\* C4, amended: a cycle whose fetch fails adds one to check_count, leaves
\* already_announced, previous_event_summaries and start_time unchanged and
\* hands no message to the channel.
C4_FailedFetchOnlyCounts ==
    [][\A t \in Tasks :
         FetchFail(t)
           => /\ check_count' = check_count + 1
              /\ UNCHANGED <<already_announced, previous_event_summaries, start_time>>
              /\ sent'[t] = <<>>
              /\ ~AlertHanded(t) /\ ~DigestHanded(t)]_vars

\* a fetch failed after a cycle that had announced the target and stored a digest
C4_Witness ==
    \E t \in Tasks :
        /\ pc[t] = "sleep" /\ error_logged[t] /\ sent[t] = <<>>
        /\ check_count = 2
        /\ already_announced
        /\ previous_event_summaries # <<>>

\* a step in which task t ends its for loop (lines 106-116 follow in the same step)
EndsLoop(t) ==
    \/ \E page \in Pages : CycleComparesDigest(t, page)
    \/ pc[t] = "alert_send" /\ AlertSendReturn(t)

\* what the comparison of `digest` with the stored digest does in a step of
\* task t, as C5 states it and as amended
DigestRuleAsStated(t, digest) ==
    digest # previous_event_summaries => DigestHanded(t)

DigestRule(t, digest) ==
    IF digest # previous_event_summaries
    THEN IF channel_cached
         THEN /\ DigestHanded(t)
              /\ Digests(sent'[t]) = <<Truncated(DigestMessage(digest))>>
              /\ UNCHANGED previous_event_summaries
         ELSE /\ ~DigestHanded(t)
              /\ Digests(sent'[t]) = <<>>
              /\ previous_event_summaries' = digest
    ELSE /\ ~DigestHanded(t)
         /\ Digests(sent'[t]) = <<>>
         /\ UNCHANGED previous_event_summaries

\* C5 as stated: a cycle whose digest differs from the stored one sends a
\* digest message.
C5_DigestSentWheneverChanged ==
    [][\A t \in Tasks :
         /\ \A page \in Pages :
              CycleComparesDigest(t, page) => DigestRuleAsStated(t, PageDigest(page))
         /\ (pc[t] = "alert_send" /\ AlertSendReturn(t))
              => DigestRuleAsStated(t, DigestAfterAlert(t))]_vars

\* C5, amended: the digest a cycle computes is compared with
\* previous_event_summaries as a sequence.  If it differs in a line, in the
\* number of lines or in their order, the cycle hands exactly one digest
\* message to the channel when the channel resolves, and none, replacing
\* the stored digest at once, when it does not; if it is the same sequence
\* the cycle hands no digest message and the stored digest stays.
C5_DigestSentIffChangedAndResolved ==
    [][\A t \in Tasks :
         /\ \A page \in Pages :
              CycleComparesDigest(t, page) => DigestRule(t, PageDigest(page))
         /\ (pc[t] = "alert_send" /\ AlertSendReturn(t))
              => DigestRule(t, DigestAfterAlert(t))]_vars

\* a digest is being sent that holds the lines of the stored one in another order
C5_Witness ==
    \E t \in Tasks :
        /\ pc[t] = "digest_send"
        /\ Len(event_summaries[t]) = 2
        /\ Len(previous_event_summaries) = 2
        /\ event_summaries[t][1] = previous_event_summaries[2]
        /\ event_summaries[t][2] = previous_event_summaries[1]
        /\ event_summaries[t][1] # event_summaries[t][2]

\* C6 as stated: the first cycle that fetches and extracts successfully
\* sends a digest message.
C6_FirstCycleSendsDigest ==
    [][\A t \in Tasks :
         (previous_event_summaries = <<>> /\ EndsLoop(t)) => DigestHanded(t)]_vars

\* C6, amended: previous_event_summaries starts empty and a computed digest
\* is never empty (a page without entries gives the sentinel line), so the
\* first cycle to end its for loop finds the digest changed: it hands a
\* digest message to the channel when the channel resolves and otherwise
\* replaces the stored digest at once; a digest send that returns stores
\* the digest sent, and a stored digest is never empty again.
C6_FirstDigestAlwaysChanged ==
    [][\A t \in Tasks :
         /\ (previous_event_summaries = <<>> /\ EndsLoop(t))
               => IF channel_cached
                  THEN DigestHanded(t) /\ event_summaries'[t] # <<>>
                  ELSE previous_event_summaries' # <<>>
         /\ previous_event_summaries # <<>> => previous_event_summaries' # <<>>
         /\ (pc[t] = "digest_send" /\ pc'[t] = "sleep" /\ ~error_logged'[t])
               => previous_event_summaries' = event_summaries[t]
         /\ pc'[t] = "digest_send" => event_summaries'[t] # <<>>]_vars

\* the first cycle fetched a page without entries and is sending the sentinel digest
C6_Witness ==
    \E t \in Tasks :
        /\ check_count = 1
        /\ pc[t] = "digest_send"
        /\ event_summaries[t] = NoSessions
        /\ previous_event_summaries = <<>>

\* C7: at most one task is inside a scrape cycle (between its gate check
\* and its sleep) at any moment.
C7_NoOverlappingCycles ==
    Cardinality({t \in Tasks : pc[t] \in {"alert_send", "digest_send"}}) <= 1

\* C8: an iteration that logs an error (the fetch, the decode, the
\* extraction or a send raised) ends at the sleep of line 128; a task leaves
\* the loop only when the client is closed; and a sleeping task can start
\* another iteration while the client is not closed.
C8_LoopSurvivesFailure ==
    \A t \in Tasks :
        /\ error_logged[t] => (pc[t] = "sleep" \/ (pc[t] = "done" /\ client_closed))
        /\ pc[t] = "done" => client_closed
        /\ (pc[t] = "sleep" /\ ~client_closed) => ENABLED GateClosed(t)

\* after a failed first cycle the only task is in its second cycle
C8_Witness ==
    /\ check_count = 2
    /\ pc[1] = "digest_send"
    /\ previous_event_summaries = <<>>
    /\ ~client_closed
    /\ \A u \in Tasks : u # 1 => pc[u] = "none"

\* C9: is_within_operating_hours returns true for the hours 8..23 and false
\* for the hours 0..7, whatever the minute.
C9_GateOpenFromEightToMidnight ==
    gate.called =>
        /\ gate.now.hour \in 8..23 => gate.result = TRUE
        /\ gate.now.hour \in 0..7 => gate.result = FALSE

\* the gate was found open at 08:50
C9_Witness ==
    /\ gate.called
    /\ gate.now.hour = 8 /\ gate.now.minute = 50
    /\ gate.result = TRUE

\* C10: a cycle finds the target exactly when its page holds an entry whose
\* lower-cased day and month equal the lower-cased target; an alert it sends
\* carries the URL of the first such entry of the page, and a cycle whose
\* page holds no such entry sends no alert.
C10_FoundIffEntryMatches ==
    [][\A t \in Tasks :
         (AtLoopTop(t) /\ check_count' = check_count + 1 /\ ~error_logged'[t])
           => \A page \in Pages :
                Cycle(t, page)
                  => IF HasMatch(page)
                     THEN /\ found'[t]
                          /\ AlertHanded(t) =>
                                sent'[t] = <<Truncated(AlertMessage(EntryUrl(page[FirstMatch(page)])))>>
                     ELSE /\ ~found'[t]
                          /\ ~AlertHanded(t)
                          /\ Alerts(sent'[t]) = <<>>]_vars

\* an alert is being sent for the first of two matching entries with different URLs
C10_Witness ==
    \E t \in Tasks :
        /\ pc[t] = "alert_send"
        /\ found[t]
        /\ Len(event_summaries[t]) = 1
        /\ Len(pending[t]) = 1
        /\ MatchesTarget(pending[t][1])
        /\ SummaryLine(pending[t][1]) # event_summaries[t][1]

\* the last message of a non-empty sequence of messages
LastOf(messages) == messages[Len(messages)]

\* slice is what message[:limit] keeps of the text `full`
IsSliceOf(slice, full, limit) ==
    /\ Len(slice.text) <= Len(full)
    /\ SubSeq(full, 1, Len(slice.text)) = slice.text
    /\ slice.chars = (IF TextLen(full) <= limit THEN TextLen(full) ELSE limit)
    /\ TextLen(slice.text) >= slice.chars

\* C11: every message handed to the channel has at most 2000 characters and
\* is the first 2000 characters of the full message; the digest stored when
\* the send returns is the full list of lines of the cycle, and the next
\* cycle compares its full list of lines with it.
C11_SentTextTruncatedDigestKeptWhole ==
    [][\A t \in Tasks :
         /\ \A i \in 1..Len(sent'[t]) : sent'[t][i].chars <= MaxMessageLength
         /\ DigestHanded(t)
               => IsSliceOf(LastOf(sent'[t]), DigestMessage(event_summaries'[t]), 2000)
         /\ AlertHanded(t)
               => \E c \in Containers :
                     IsSliceOf(LastOf(sent'[t]), AlertMessage(EntryUrl(c)), 2000)
         /\ (pc[t] = "digest_send" /\ pc'[t] = "sleep" /\ ~error_logged'[t])
               => previous_event_summaries' = event_summaries[t]
         /\ (AtLoopTop(t) /\ check_count' = check_count + 1 /\ ~error_logged'[t])
               => \A page \in Pages :
                     CycleComparesDigest(t, page)
                       => (DigestHanded(t)
                             <=> (channel_cached /\ PageDigest(page) # previous_event_summaries))]_vars

\* an iteration sent an alert and a digest cut to 2000 characters, and the
\* stored digest is the full two lines, longer than 2000 characters
C11_Witness ==
    \E t \in Tasks :
        /\ pc[t] = "sleep" /\ ~error_logged[t]
        /\ Len(sent[t]) = 2
        /\ IsAlert(sent[t][1]) /\ sent[t][1].chars = 2000
        /\ IsDigest(sent[t][2]) /\ sent[t][2].chars = 2000
        /\ Len(previous_event_summaries) = 2
        /\ TextLen(DigestMessage(previous_event_summaries)) > 2000
        /\ TextLen(sent[t][2].text) < TextLen(DigestMessage(previous_event_summaries))

\* a step in which task t checks the gate of line 69
GateChecked(t) ==
    /\ AtLoopTop(t)
    /\ ~client_closed
    /\ \/ GateClosed(t)
       \/ FetchFail(t)
       \/ \E page \in Pages : Cycle(t, page)

\* C12: each iteration of a loop ends suspended in the sleep of line 128,
\* whether the gate was closed, the cycle succeeded or the cycle failed: a
\* task checks the gate only when it first runs or when it is resumed from
\* that sleep, and a step of a task inside an iteration leads to a send of
\* the same iteration or to the sleep.
C12_SleepBetweenGateChecks ==
    [][\A t \in Tasks :
         /\ pc'[t] = "start" => pc[t] \in {"none", "start"}
         /\ GateClosed(t) => pc'[t] = "sleep"
         /\ FetchFail(t) => pc'[t] = "sleep"
         /\ GateChecked(t) => pc'[t] \in {"alert_send", "digest_send", "sleep"}
         /\ (pc[t] = "alert_send" /\ pc'[t] # pc[t]) => pc'[t] \in {"digest_send", "sleep"}
         /\ (pc[t] = "digest_send" /\ pc'[t] # pc[t]) => pc'[t] = "sleep"
         /\ (pc[t] = "sleep" /\ pc'[t] = "done") => client_closed]_vars

\* the only task slept after a cycle that stored a digest, and sleeps again
\* after a second cycle that failed
C12_Witness ==
    /\ check_count = 2
    /\ pc[1] = "sleep" /\ error_logged[1]
    /\ previous_event_summaries # <<>>
    /\ \A u \in Tasks : u # 1 => pc[u] = "none"

\* C13: an iteration that finds the gate closed goes to the sleep of line
\* 128 at once: it hands no message to the channel, logs no failed check,
\* and leaves already_announced, previous_event_summaries, check_count and
\* start_time as they were.
C13_GateClosedOnlySleeps ==
    [][\A t \in Tasks :
         GateClosed(t)
           => /\ UNCHANGED <<already_announced, previous_event_summaries, check_count, start_time>>
              /\ pc'[t] = "sleep"
              /\ sent'[t] = <<>>
              /\ ~AlertHanded(t) /\ ~DigestHanded(t)
              /\ ~found'[t] /\ ~error_logged'[t]]_vars

\* after the cycle that announced the target, the only task went through an
\* iteration with the gate closed
C13_Witness ==
    /\ check_count = 1
    /\ already_announced
    /\ previous_event_summaries # <<>>
    /\ pc[1] = "sleep" /\ sent[1] = <<>> /\ ~error_logged[1]
    /\ \A u \in Tasks : u # 1 => pc[u] = "none"

\* a step of the loop of task t: a gate check or the return of a send
LoopStep(t) ==
    \/ GateChecked(t)
    \/ pc[t] \in {"alert_send", "digest_send"} /\ pc'[t] # pc[t]

\* C14: already_announced goes from true to false only in a step of the
\* reset command; no step of a loop does so, whether its cycle finds no
\* matching entry, extracts no entry, finds the digest changed or fails.
C14_OnlyResetClearsFlag ==
    [][/\ (already_announced /\ ~already_announced') => reset
       /\ \A t \in Tasks :
            (already_announced /\ LoopStep(t)) => already_announced']_vars

\* after the cycle that announced the target, a second cycle extracted no
\* entry and is sending the sentinel digest; the flag is still true
C14_Witness ==
    \E t \in Tasks :
        /\ already_announced
        /\ check_count = 2
        /\ pc[t] = "digest_send" /\ ~found[t]
        /\ event_summaries[t] = NoSessions
        /\ previous_event_summaries # <<>>
        /\ \A u \in Tasks : u # t => pc[u] = "none"

\* a step in which task t starts an iteration with the gate open
GateOpenIterationStarts(t) ==
    /\ AtLoopTop(t)
    /\ ~client_closed
    /\ FetchFail(t) \/ \E page \in Pages : Cycle(t, page)

\* C15: check_count is 0 at construction; a step that starts an iteration
\* with the gate open adds exactly one to it, and every other step (an
\* iteration with the gate closed, the return of a send, reset, status, a
\* host event) leaves it as it is.
C15_CountsGateOpenIterations ==
    /\ check_count = 0
    /\ [][/\ check_count' >= check_count
          /\ \A t \in Tasks :
               /\ GateOpenIterationStarts(t) => check_count' = check_count + 1
               /\ GateClosed(t) => check_count' = check_count
          /\ reset => check_count' = check_count
          /\ status => check_count' = check_count
          /\ check_count' # check_count
                => \E t \in Tasks : GateOpenIterationStarts(t)]_vars

\* two iterations with the gate open have started, the second sent an
\* alert, and a reset has run since
C15_Witness ==
    /\ check_count = 2
    /\ ResetAfterAlert(1)
    /\ previous_event_summaries # <<>>
    /\ \A u \in Tasks : u # 1 => pc[u] = "none"

\* C16: a step of reset leaves already_announced false and changes nothing
\* else: not the stored digest, not check_count, not the position or the
\* locals of any loop.  A reset applied to the state a reset leaves, or to
\* any state in which already_announced is false, changes nothing.  A cycle
\* that computes the stored digest again after a reset sends no digest.
C16_ResetOnlyClearsFlag ==
    [][/\ reset
            => /\ ~already_announced'
               /\ ResetFlag(already_announced') = already_announced'
               /\ UNCHANGED <<client_closed, channel_cached, check_count,
                              previous_event_summaries, start_time, pc, locals, gate>>
       /\ (reset /\ ~already_announced)
            => UNCHANGED <<client_closed, channel_cached, bot, pc, locals, gate>>
       /\ \A t \in Tasks :
            (pc[t] = "alert_send" /\ AlertSendReturn(t)
               /\ DigestAfterAlert(t) = previous_event_summaries)
              => (~DigestHanded(t) /\ Digests(sent'[t]) = <<>>)]_vars

\* the first cycle sent an alert and a digest, a reset has run since, and the
\* digest that was sent is still the stored one
C16_Witness ==
    /\ check_count = 1
    /\ ResetAfterAlert(1)
    /\ Digests(sent[1]) = <<Truncated(DigestMessage(previous_event_summaries))>>
    /\ \A u \in Tasks : u # 1 => pc[u] = "none"

\* the digest that the cycle on `page` compares at line 110 when it starts
\* with the flag `announced`: the lines collected up to the alert send, if
\* there is one, and those of the containers visited after it
ScanDigest(page, announced, channel) ==
    LET r == ScanContainers(page, <<>>, FALSE, announced, channel)
    IN  WithSentinel(r.event_summaries \o PageLines(r.pending))

\* C17: the digest a cycle compares is the same whether the cycle starts
\* with already_announced true or false, and the comparison of line 110,
\* which does not read the flag, is made with the same outcome (send, store
\* at once, or neither) in a cycle that hands no alert and in a cycle whose
\* alert send has returned; one cycle can send an alert and a digest.
C17_DigestDecisionIgnoresFlag ==
    [][\A t \in Tasks :
         /\ (AtLoopTop(t) /\ check_count' = check_count + 1 /\ ~error_logged'[t])
               => \A page \in Pages :
                    Cycle(t, page)
                      => /\ ScanDigest(page, TRUE, channel_cached) = PageDigest(page)
                         /\ ScanDigest(page, FALSE, channel_cached) = PageDigest(page)
                         /\ AlertHanded(t) => event_summaries'[t] \o PageLines(pending'[t])
                                                 = PageDigest(page)
                         /\ ~AlertHanded(t) => DigestRule(t, PageDigest(page))
         /\ (pc[t] = "alert_send" /\ AlertSendReturn(t))
               => DigestRule(t, DigestAfterAlert(t))]_vars

\* the first cycle sent an alert and then a digest, whose send has returned
C17_Witness ==
    \E t \in Tasks :
        /\ check_count = 1
        /\ already_announced
        /\ pc[t] = "sleep" /\ found[t] /\ ~error_logged[t]
        /\ Len(sent[t]) = 2
        /\ IsAlert(sent[t][1])
        /\ sent[t][2] = Truncated(DigestMessage(previous_event_summaries))

\* C18: once a reset has run, already_announced is false until an alert
\* send starts after that reset; a cycle in progress when the reset runs
\* does not set the flag again.
C18_ResetNeverLost ==
    reset_pending => ~already_announced

\* the last iteration of task t ended because its alert send raised
AlertFailed(t) ==
    /\ pc[t] = "sleep"
    /\ error_logged[t]
    /\ sent[t] # <<>>
    /\ IsAlert(LastOf(sent[t]))

\* C19: already_announced becomes true only in the step in which an alert
\* send returns.  A cycle that finds the target while the flag is false
\* and the channel does not resolve hands over no alert and leaves the flag
\* false; an alert send that raises leaves the flag as it is, false when
\* there is one loop; and a cycle that finds the target while the flag is
\* false and the channel resolves hands over the alert.
C19_FlagSetOnlyAfterAlertSent ==
    [][/\ (~already_announced /\ already_announced') => \E t \in Tasks : AlertReturned(t)
       /\ \A t \in Tasks :
            /\ (pc[t] = "alert_send" /\ AlertSendRaise(t))
                  => (UNCHANGED already_announced /\ error_logged'[t])
            /\ (~already_announced /\ ~channel_cached /\ FindsTarget(t))
                  => (~already_announced' /\ ~AlertHanded(t) /\ Alerts(sent'[t]) = <<>>)
            /\ (~already_announced /\ channel_cached /\ FindsTarget(t))
                  => AlertHanded(t)
            /\ (AlertFailed(t) /\ \A u \in Tasks : u # t => pc[u] = "none")
                  => ~already_announced]_vars

\* the alert send of the only task's first cycle raised; the flag is false
\* and the channel resolves for the cycle to come
C19_Witness ==
    /\ check_count = 1
    /\ AlertFailed(1)
    /\ ~already_announced
    /\ channel_cached
    /\ ~client_closed
    /\ \A u \in Tasks : u # 1 => pc[u] = "none"

\* what holds of the stored digest in a step of task t that ends a cycle
\* without raising, or that hands over the digest `digest` of the cycle
StoredWhenCycleEnds(t, digest) ==
    /\ pc'[t] = "sleep" => previous_event_summaries' = digest
    /\ pc'[t] = "digest_send" => event_summaries'[t] = digest
    /\ (~channel_cached /\ digest # previous_event_summaries)
          => (pc'[t] = "sleep" /\ Digests(sent'[t]) = <<>>)
    /\ digest = previous_event_summaries
          => (pc'[t] = "sleep" /\ Digests(sent'[t]) = <<>>)

\* C20: when a cycle ends without raising, previous_event_summaries is the
\* digest the cycle computed: unchanged when it was equal, stored when the
\* digest send returns, and stored at once, with no message handed over,
\* when the channel does not resolve.  A later cycle that computes the
\* stored digest hands over no digest, whether the channel resolves or not.
C20_StoredDigestIsLastComputed ==
    [][\A t \in Tasks :
         /\ (AtLoopTop(t) /\ check_count' = check_count + 1 /\ ~error_logged'[t])
               => \A page \in Pages :
                    CycleComparesDigest(t, page) => StoredWhenCycleEnds(t, PageDigest(page))
         /\ (pc[t] = "alert_send" /\ AlertSendReturn(t))
               => StoredWhenCycleEnds(t, DigestAfterAlert(t))
         /\ (pc[t] = "digest_send" /\ DigestSendReturn(t))
               => (pc'[t] = "sleep" /\ previous_event_summaries' = event_summaries[t])]_vars

\* the first cycle of the only task ended without raising and handed over
\* no message, the channel not resolving; its digest is stored, and the
\* channel resolves for the cycle to come
C20_Witness ==
    /\ check_count = 1
    /\ pc[1] = "sleep" /\ ~error_logged[1]
    /\ sent[1] = <<>>
    /\ previous_event_summaries # <<>>
    /\ channel_cached
    /\ ~client_closed
    /\ \A u \in Tasks : u # 1 => pc[u] = "none"

====
